---------------------------- MODULE Spec2Model ----------------------------
(***************************************************************************)
(* A model of the build server of remake (src/remake.cpp): the status      *)
(* cache, the rule matcher, the job table, the client queue, the scheduler *)
(* (update_clients), the request endpoint (accept_client) and the event    *)
(* loop (server_loop, server_mode), together with the child scripts that   *)
(* the server forks, which may issue recursive requests and exit.          *)
(*                                                                         *)
(* A file name is a sequence of one-character strings, so that the rule    *)
(* matcher can look inside it.                                             *)
(***************************************************************************)
EXTENDS Integers, Sequences, FiniteSets, TLC

(***************************************************************************)
(* Bounds of the model.                                                    *)
(***************************************************************************)
\* Largest value given to the -j option (0 is "-j" alone: unbounded).
MaxCap == 2
\* Largest number of connections the child scripts open in one run.
MaxConns == 2
\* Largest modification time of a file.
MaxTime == 2

(***************************************************************************)
(* File names.                                                             *)
(***************************************************************************)
A == <<"a">>
B == <<"b">>
C == <<"c">>
D == <<"d">>
AO == <<"a", "o">>
AC == <<"a", "c">>
Remakefile == <<"R", "e", "m", "a", "k", "e", "f", "i", "l", "e">>

Targets == {A, B, C, D, AO, AC, Remakefile}

\* The byte value of a character (std::string compares bytes).
Ascii(ch) ==
    CASE ch = "%" -> 37
      [] ch = "R" -> 82
      [] ch = "a" -> 97
      [] ch = "b" -> 98
      [] ch = "c" -> 99
      [] ch = "d" -> 100
      [] ch = "e" -> 101
      [] ch = "f" -> 102
      [] ch = "i" -> 105
      [] ch = "k" -> 107
      [] ch = "l" -> 108
      [] ch = "m" -> 109
      [] ch = "o" -> 111

\* s < t as std::string orders them: the iteration order of a std::set.
RECURSIVE StrLess(_, _)
StrLess(s, t) ==
    IF t = <<>> THEN FALSE
    ELSE IF s = <<>> THEN TRUE
    ELSE IF Ascii(Head(s)) # Ascii(Head(t)) THEN Ascii(Head(s)) < Ascii(Head(t))
    ELSE StrLess(Tail(s), Tail(t))

\* The members of a std::set<std::string> in iteration order.
RECURSIVE SetOrder(_)
SetOrder(S) ==
    IF S = {} THEN <<>>
    ELSE LET m == CHOOSE x \in S : \A y \in S \ {x} : StrLess(x, y)
         IN  <<m>> \o SetOrder(S \ {m})

\* The members of a list, as a set.
Range(seq) == {seq[k] : k \in 1..Len(seq)}

(***************************************************************************)
(* Rules (rule_t) and the rule matcher.                                    *)
(***************************************************************************)
\* rule_t(): a rule with no targets, which find_rule returns when none matches.
rule_t == [generic |-> FALSE, targets |-> <<>>, deps |-> <<>>, script |-> ""]

\* std::string::find('%'): the 1-based position of the first %, 0 for npos.
RECURSIVE FindPercent(_, _)
FindPercent(s, k) ==
    IF k > Len(s) THEN 0
    ELSE IF s[k] = "%" THEN k
    ELSE FindPercent(s, k + 1)

\* One string of substitute_pattern: the first % replaced by pat.
substitute_one(pat, s) ==
    LET pos == FindPercent(s, 1)
    IN  IF pos = 0 THEN s
        ELSE SubSeq(s, 1, pos - 1) \o pat \o SubSeq(s, pos + 1, Len(s))

substitute_pattern(pat, src) == [k \in 1..Len(src) |-> substitute_one(pat, src[k])]

\* pattern_matches with the length test off by one: a target as long as the
\* pattern without its % passes it.
pattern_matches_empty(j, target, plen) ==
    LET len  == Len(j)
        tlen == Len(target)
        pos  == FindPercent(j, 1)
        len2 == len - pos
    IN  /\ ~(tlen < len - 1)
        /\ ~(plen <= tlen - (len - 1))
        /\ pos # 0
        /\ SubSeq(j, 1, pos - 1) = SubSeq(target, 1, pos - 1)
        /\ SubSeq(j, pos + 1, len) = SubSeq(target, tlen - len2 + 1, tlen)

\* The tests of find_rule on one target pattern j of a generic rule, with
\* plen the length of the best stem so far.
pattern_matches(j, target, plen) ==
    LET len  == Len(j)
        tlen == Len(target)
        pos  == FindPercent(j, 1)
        len2 == len - pos
    IN  /\ ~(tlen < len)
        /\ ~(plen <= tlen - (len - 1))
        /\ pos # 0
        /\ SubSeq(j, 1, pos - 1) = SubSeq(target, 1, pos - 1)
        /\ SubSeq(j, pos + 1, len) = SubSeq(target, tlen - len2 + 1, tlen)

\* The first target pattern of rule r, from position k, that matches (0: none).
RECURSIVE first_match(_, _, _, _)
first_match(r, k, target, plen) ==
    IF k > Len(r.targets) THEN 0
    ELSE IF pattern_matches(r.targets[k], target, plen) THEN k
    ELSE first_match(r, k + 1, target, plen)

\* The rule r instantiated for target, which its pattern j matches: the
\* stem is what the % of j stands for.
instantiate(r, j, target) ==
    [generic |-> FALSE,
     targets |-> substitute_pattern(
                     SubSeq(target, FindPercent(j, 1), Len(target) - Len(j) + FindPercent(j, 1)),
                     r.targets),
     deps    |-> substitute_pattern(
                     SubSeq(target, FindPercent(j, 1), Len(target) - Len(j) + FindPercent(j, 1)),
                     r.deps),
     script  |-> r.script]

\* The loop of find_rule from rule i on, with the best generic match so far
\* and the length plen of its stem.
RECURSIVE find_rule_from(_, _, _, _, _)
\* Rule i is generic and k is its first pattern that matches (0: none).
find_rule_generic(rs, i, target, plen, rule, k) ==
    IF k = 0 THEN find_rule_from(rs, i + 1, target, plen, rule)
    ELSE find_rule_from(rs, i + 1, target,
                        Len(target) - (Len(rs[i].targets[k]) - 1),
                        instantiate(rs[i], rs[i].targets[k], target))

find_rule_from(rs, i, target, plen, rule) ==
    IF i > Len(rs) THEN rule
    ELSE IF ~rs[i].generic
    THEN IF target \in Range(rs[i].targets) THEN rs[i]
         ELSE find_rule_from(rs, i + 1, target, plen, rule)
    ELSE find_rule_generic(rs, i, target, plen, rule,
                           first_match(rs[i], 1, target, plen))

\* The initial value of plen in find_rule.
InitialPlen == 10000

find_rule(rs, target) == find_rule_from(rs, 1, target, InitialPlen, rule_t)


(***************************************************************************)
(* The inputs of a run and the state of the server.                        *)
(***************************************************************************)
VARIABLES
    rulefile,        \* the rules the file Remakefile holds
    dotremake,       \* input: the dependencies file .remake holds
    argv,            \* input: the targets of the command line
    mtime,           \* input: the modification time stat gives for each file
    exists,          \* the files for which stat succeeds
    max_active_jobs, \* static int max_active_jobs, as set by -j
    rules,           \* static rule_list rules
    deps,            \* static dependency_map deps
    status,          \* static status_map status
    job_targets,     \* static job_targets_map job_targets
    job_pids,        \* static pid_job_map job_pids (the pid of a job is its id)
    clients,         \* static client_list clients
    running_jobs,    \* static int running_jobs
    waiting_jobs,    \* static int waiting_jobs
    job_counter,     \* static int job_counter
    build_failure,   \* static bool build_failure
    pc,              \* where the server stands in server_mode and server_loop
    seed,            \* the seed client server_mode made last
    exit_code,       \* the status given to exit, -1 before
    got_SIGCHLD,     \* static volatile sig_atomic_t got_SIGCHLD
    sigpending,      \* a SIGCHLD is pending (blocked outside pselect)
    backlog,         \* the connections waiting in the listening socket
    nconns,          \* the number of connections opened so far
    child,           \* each forked script: running, blocked on a request, exited
    reply,           \* what each connection got back from the server, and why
    history,         \* what was done for each job, for stating the properties
    completed,       \* the kinds of clients complete_request was called for
    wanted,          \* the target find_rule is called for, in SpecRule
    found,           \* the rule find_rule returned for it
    text,            \* the string given to escape_string, in SpecWord
    written,         \* what the stream holds once the string is saved
    word             \* the string read_word returned from that stream

srv_vars == <<exists, deps, status, job_targets, job_pids, clients, running_jobs,
              waiting_jobs, job_counter, build_failure, child, reply, history,
              completed>>
in_vars == <<dotremake, argv, mtime, max_active_jobs>>
rule_vars == <<wanted, found>>
word_vars == <<text, written, word>>
file_vars == <<rulefile, in_vars, rule_vars, word_vars>>
vars == <<file_vars, srv_vars, rules, pc, seed, exit_code, got_SIGCHLD,
          sigpending, backlog, nconns>>

\* status_t(): the value std::map::insert stores before get_status fills it.
status_t == [status |-> "Uptodate", last |-> 0]
\* A target that is not in the status map.
Absent == [status |-> "Absent", last |-> 0]

\* The null pointer of client_t::delayed.
NULL == rule_t
\* client_t(): a client as its constructor leaves it. seen and asked are not
\* fields of the source: seen collects the targets the client saw Uptodate or
\* Remade, asked keeps the names a real client was accepted with.
client_t == [fd |-> -1, job_id |-> -1, pending |-> <<>>, running |-> {},
             delayed |-> NULL, seen |-> {}, asked |-> {}]

\* The part of the state the operations of the server read and write.
Server == [exists |-> exists, deps |-> deps, status |-> status,
           job_targets |-> job_targets, job_pids |-> job_pids,
           clients |-> clients, running_jobs |-> running_jobs,
           waiting_jobs |-> waiting_jobs, job_counter |-> job_counter,
           build_failure |-> build_failure, child |-> child, reply |-> reply,
           history |-> history, completed |-> completed, aborted |-> FALSE]

Commit(s) ==
    /\ exists' = s.exists
    /\ deps' = s.deps
    /\ status' = s.status
    /\ job_targets' = s.job_targets
    /\ job_pids' = s.job_pids
    /\ clients' = s.clients
    /\ running_jobs' = s.running_jobs
    /\ waiting_jobs' = s.waiting_jobs
    /\ job_counter' = s.job_counter
    /\ build_failure' = s.build_failure
    /\ child' = s.child
    /\ reply' = s.reply
    /\ history' = s.history
    /\ completed' = s.completed

\* f with key k dropped (std::map::erase).
Erase(f, k) == [x \in DOMAIN f \ {k} |-> f[x]]
\* f with key k set to v (std::map::operator[] followed by an assignment).
Put(f, k, v) == [x \in DOMAIN f \cup {k} |-> IF x = k THEN v ELSE f[x]]
\* seq without its k-th member (std::list::erase).
Remove(seq, k) == SubSeq(seq, 1, k - 1) \o SubSeq(seq, k + 1, Len(seq))
\* seq with x put before its k-th member (std::list::insert).
Insert(seq, k, x) == SubSeq(seq, 1, k - 1) \o <<x>> \o SubSeq(seq, k, Len(seq))

(***************************************************************************)
(* get_status: the status of a target, computed at its first inspection    *)
(* and kept in the status map. The operator gives the status map after the *)
(* call; the value returned is that map at the target.                     *)
(***************************************************************************)
RECURSIVE get_status(_, _, _, _)
RECURSIVE get_status_deps(_, _, _, _, _)
get_status(S, E, Dp, target) ==
    IF S[target].status # "Absent" THEN S
    ELSE IF target \notin E
    THEN [S EXCEPT ![target] = [status_t EXCEPT !.status = "Todo"]]
    ELSE get_status_deps([S EXCEPT ![target] = status_t], E, Dp, target,
                         SetOrder(Dp[target]))

\* The body of the loop of get_status, once get_status has returned for the
\* dependency at the head of ks.
get_status_dep(S1, E, Dp, target, ks) ==
    IF S1[Head(ks)].status # "Uptodate" \/ S1[Head(ks)].last > mtime[target]
    THEN [S1 EXCEPT ![target].status = "Todo"]
    ELSE get_status_deps(S1, E, Dp, target, Tail(ks))

\* The loop of get_status over the recorded dependencies ks still to inspect.
get_status_deps(S, E, Dp, target, ks) ==
    IF ks = <<>>
    THEN [S EXCEPT ![target] = [status |-> "Uptodate", last |-> mtime[target]]]
    ELSE get_status_dep(get_status(S, E, Dp, Head(ks)), E, Dp, target, ks)

(***************************************************************************)
(* get_status again, with the depth of its recursion: in r, S is the       *)
(* status map and depth the greatest number of calls of get_status that    *)
(* were active at once; level is the number of calls active in the call at *)
(* hand.  The evaluation is cut at level MaxDepth.                         *)
(***************************************************************************)
\* The level at which the evaluation is cut.
MaxDepth == 9

\* The call at hand is counted in r.
Entered(r, level) == [r EXCEPT !.depth = IF level > @ THEN level ELSE @]

RECURSIVE get_status_deps_at(_, _, _, _, _, _)

\* get_status_at without the test of the insertion: a target that is in the
\* status map already is inspected again.
get_status_at_again(r, E, Dp, target, level) ==
    IF level >= MaxDepth THEN Entered(r, level)
    ELSE IF target \notin E
    THEN [Entered(r, level) EXCEPT !.S[target] = [status_t EXCEPT !.status = "Todo"]]
    ELSE get_status_deps_at([Entered(r, level) EXCEPT !.S[target] = status_t],
                            E, Dp, target, SetOrder(Dp[target]), level)

get_status_at(r, E, Dp, target, level) ==
    IF level >= MaxDepth THEN Entered(r, level)
    ELSE IF r.S[target].status # "Absent" THEN Entered(r, level)
    ELSE IF target \notin E
    THEN [Entered(r, level) EXCEPT !.S[target] = [status_t EXCEPT !.status = "Todo"]]
    ELSE get_status_deps_at([Entered(r, level) EXCEPT !.S[target] = status_t],
                            E, Dp, target, SetOrder(Dp[target]), level)

get_status_dep_at(r1, E, Dp, target, ks, level) ==
    IF r1.S[Head(ks)].status # "Uptodate" \/ r1.S[Head(ks)].last > mtime[target]
    THEN [r1 EXCEPT !.S[target].status = "Todo"]
    ELSE get_status_deps_at(r1, E, Dp, target, Tail(ks), level)

get_status_deps_at(r, E, Dp, target, ks, level) ==
    IF ks = <<>>
    THEN [r EXCEPT !.S[target] = [status |-> "Uptodate", last |-> mtime[target]]]
    ELSE get_status_dep_at(get_status_at(r, E, Dp, Head(ks), level + 1),
                           E, Dp, target, ks, level)

(***************************************************************************)
(* Jobs.  In the operators below s is the state of the server (Server) and *)
(* nofork is the set of jobs for which fork fails.  s.aborted is set when  *)
(* an assertion of the source fails: the process aborts there.             *)
(***************************************************************************)
\* What history keeps of a job: the instantiated rule, the target start was
\* called for, the client that asked for it, what became of the script,
\* what the dependency client of the job had seen when it was completed,
\* the names of the requests accepted from the script of the job, and, when
\* the job got a dependency client, how many clients stood before it in the
\* queue when it was created and which client stood just behind it.
JobRecord(rule, target, c) ==
    [rule |-> rule, target |-> target, fd |-> c.fd, parent |-> c.job_id,
     delayed |-> c.delayed # NULL,
     script |-> "not started", seen |-> {}, depsfailed |-> FALSE,
     allfailed |-> FALSE, requested |-> {}, ahead |-> -1, next |-> <<>>]

\* A forked script: running, blocked until connection fd is answered, or
\* exited with success or failure and not yet reaped.
Running(j) == [job |-> j, state |-> "running", fd |-> -1]
Blocked(j, fd) == [job |-> j, state |-> "blocked", fd |-> fd]
Exited(j, success) ==
    [job |-> j, state |-> IF success THEN "exited 0" ELSE "exited 1", fd |-> -1]

\* complete_job that, on failure, also marks Failed what the targets of the
\* job depend on.
complete_job_deps(s, job_id, success) ==
    IF job_id \notin DOMAIN s.job_targets
    THEN [s EXCEPT !.aborted = TRUE]
    ELSE LET targets == Range(s.job_targets[job_id])
         IN  [s EXCEPT
                !.status = [t \in Targets |->
                              IF t \in targets
                              THEN [@[t] EXCEPT !.status =
                                       IF success THEN "Remade" ELSE "Failed"]
                              ELSE IF ~success /\ \E u \in targets : t \in s.deps[u]
                              THEN [@[t] EXCEPT !.status = "Failed"]
                              ELSE @[t]],
                !.exists = IF success THEN @ ELSE @ \ targets,
                !.job_targets = Erase(@, job_id)]

complete_job(s, job_id, success) ==
    IF job_id \notin DOMAIN s.job_targets
    THEN [s EXCEPT !.aborted = TRUE]
    ELSE LET targets == Range(s.job_targets[job_id])
         IN  [s EXCEPT
                !.status = [t \in Targets |->
                              IF t \in targets
                              THEN [@[t] EXCEPT !.status =
                                       IF success THEN "Remade" ELSE "Failed"]
                              ELSE @[t]],
                !.exists = IF success THEN @ ELSE @ \ targets,
                !.job_targets = Erase(@, job_id)]

run_script(s, job_id, rule, nofork) ==
    IF job_id \in nofork
    THEN complete_job([s EXCEPT !.history[job_id + 1].script = "fork failed"],
                      job_id, FALSE)
    ELSE [s EXCEPT !.running_jobs = @ + 1,
                   !.job_pids = @ \cup {job_id},
                   !.child = Put(@, job_id, Running(job_id)),
                   !.history[job_id + 1].script = "started"]

\* start_targets without the loop: only the target start was called for is
\* Running, the other targets of the rule keep their status.
start_targets_single(s, target, i, rule) ==
    [s EXCEPT
       !.status[target].status = "Running",
       !.deps = [t \in Targets |->
                   IF t \in Range(rule.targets) THEN Range(rule.deps) ELSE @[t]],
       !.history = Append(@, JobRecord(rule, target, s.clients[i]))]

\* The loop of start over the targets of the rule: they are Running and their
\* dependencies are those of the rule.  (The job enters history.)
start_targets(s, target, i, rule) ==
    [s EXCEPT
       !.status = [t \in Targets |->
                     IF t \in Range(rule.targets)
                     THEN [@[t] EXCEPT !.status = "Running"]
                     ELSE @[t]],
       !.deps = [t \in Targets |->
                   IF t \in Range(rule.targets) THEN Range(rule.deps) ELSE @[t]],
       !.history = Append(@, JobRecord(rule, target, s.clients[i]))]

\* history: where the dependency client of job stands in the queue, now that
\* start has created it.
NoteCreated(s2, job, p) ==
    [s2 EXCEPT !.history[job + 1].ahead = p - 1,
               !.history[job + 1].next = <<s2.clients[p + 1].fd,
                                           s2.clients[p + 1].job_id>>]
PositionOf(s2, job) ==
    CHOOSE p \in DOMAIN s2.clients :
        s2.clients[p].job_id = job /\ s2.clients[p].delayed # NULL

start_created(s2, job) == NoteCreated(s2, job, PositionOf(s2, job))

\* The end of start: the job enters job_targets.
start_end(s2, rule) ==
    IF s2.aborted
    THEN [s |-> s2, ok |-> FALSE, inserted |-> FALSE]
    ELSE [s |-> [s2 EXCEPT !.job_targets = Put(@, s2.job_counter, rule.targets),
                           !.job_counter = @ + 1],
          ok |-> TRUE, inserted |-> rule.deps # <<>>]

\* start_rule with a dependency client that is given the dependencies
\* recorded for the target along with those of the rule.
start_rule_recorded(s, target, i, nofork, rule) ==
    IF rule.targets = <<>>
    THEN [s |-> [s EXCEPT !.status[target].status = "Failed"],
          ok |-> FALSE, inserted |-> FALSE]
    ELSE IF rule.deps # <<>>
    THEN start_end(start_created(
                      [start_targets(s, target, i, rule) EXCEPT !.clients =
                         Insert(@, i, [client_t EXCEPT
                                         !.job_id = s.job_counter,
                                         !.pending = rule.deps \o
                                             SetOrder(s.deps[target] \ Range(rule.deps)),
                                         !.delayed = [rule EXCEPT !.deps = <<>>]])],
                      s.job_counter),
                   rule)
    ELSE start_end(run_script(start_targets(s, target, i, rule),
                              s.job_counter, rule, nofork),
                   rule)

\* start once find_rule has given rule.
start_rule(s, target, i, nofork, rule) ==
    IF rule.targets = <<>>
    THEN [s |-> [s EXCEPT !.status[target].status = "Failed"],
          ok |-> FALSE, inserted |-> FALSE]
    ELSE IF rule.deps # <<>>
    THEN start_end(start_created(
                      [start_targets(s, target, i, rule) EXCEPT !.clients =
                         Insert(@, i, [client_t EXCEPT
                                         !.job_id = s.job_counter,
                                         !.pending = rule.deps,
                                         !.delayed = [rule EXCEPT !.deps = <<>>]])],
                      s.job_counter),
                   rule)
    ELSE start_end(run_script(start_targets(s, target, i, rule),
                              s.job_counter, rule, nofork),
                   rule)

\* start(target, current), with current the position i of the client in the
\* list.  Gives the state, the value returned, and whether a dependency
\* client was inserted at i (the caller's client is then at i + 1).
start(s, target, i, nofork) ==
    start_rule(s, target, i, nofork, find_rule(rules, target))

\* The server answers connection fd with byte (-1: it closes the connection
\* without a reply).  The script that was waiting for that answer goes on.
Answer(s, fd, byte) ==
    [s EXCEPT !.reply = Put(@, fd,
                            [byte |-> byte,
                             count |-> IF fd \in DOMAIN @ THEN @[fd].count + 1
                                       ELSE 1,
                             asked |-> {}, seen |-> {}, failed |-> {}]),
              !.child = [j \in DOMAIN @ |->
                           IF @[j] = Blocked(j, fd) THEN Running(j) ELSE @[j]]]

\* reply: what the real client had been asked, what it had seen and which of
\* its targets were Failed when its reply was sent.
NoteReply(s, client) ==
    [s EXCEPT !.reply[client.fd].asked = client.asked,
              !.reply[client.fd].seen = client.seen,
              !.reply[client.fd].failed =
                  {t \in client.asked : s.status[t].status = "Failed"}]

\* history: what a dependency client had seen when it was completed.
NoteSeen(s, client, success) ==
    [s EXCEPT !.history[client.job_id + 1].seen = client.seen,
              !.history[client.job_id + 1].depsfailed = ~success]

\* history: whether complete_job, called for a dependency client that failed,
\* left every target of the job Failed and the job out of job_targets.
NoteFailed(s, client) ==
    [s EXCEPT !.history[client.job_id + 1].allfailed =
        /\ ~s.aborted
        /\ client.job_id \notin DOMAIN s.job_targets
        /\ \A t \in Range(s.history[client.job_id + 1].rule.targets) :
               s.status[t].status = "Failed"]

\* complete_reply without the test of success: the script of a dependency
\* client is started even when the client failed.
complete_reply_always(s, client, success, nofork) ==
    IF client.delayed # NULL
    THEN run_script(NoteSeen(s, client, success), client.job_id,
                    client.delayed, nofork)
    ELSE IF client.fd >= 0
    THEN [NoteReply(Answer(s, client.fd, IF success THEN 1 ELSE 0), client)
            EXCEPT !.waiting_jobs = @ - 1]
    ELSE s

\* complete_reply with a reply that does not depend on success: a real
\* client is always sent 1.
complete_reply_yes(s, client, success, nofork) ==
    IF client.delayed # NULL
    THEN IF success
         THEN run_script(NoteSeen(s, client, success), client.job_id,
                         client.delayed, nofork)
         ELSE NoteFailed(complete_job(NoteSeen(s, client, success),
                                      client.job_id, FALSE),
                         client)
    ELSE IF client.fd >= 0
    THEN [NoteReply(Answer(s, client.fd, 1), client)
            EXCEPT !.waiting_jobs = @ - 1]
    ELSE s

\* The first statement of complete_request: the script of a dependency client
\* is started or its job fails; a real client gets its reply.
complete_reply(s, client, success, nofork) ==
    IF client.delayed # NULL
    THEN IF success
         THEN run_script(NoteSeen(s, client, success), client.job_id,
                         client.delayed, nofork)
         ELSE NoteFailed(complete_job(NoteSeen(s, client, success),
                                      client.job_id, FALSE),
                         client)
    ELSE IF client.fd >= 0
    THEN [NoteReply(Answer(s, client.fd, IF success THEN 1 ELSE 0), client)
            EXCEPT !.waiting_jobs = @ - 1]
    ELSE s

\* The last statement of complete_request without its test of the job id.
complete_seed_any(s, client, success) ==
    IF s.aborted THEN s
    ELSE IF ~success
    THEN [s EXCEPT !.build_failure = TRUE]
    ELSE s

\* The last statement of complete_request.
complete_seed(s, client, success) ==
    IF s.aborted THEN s
    ELSE IF client.job_id < 0 /\ ~success
    THEN [s EXCEPT !.build_failure = TRUE]
    ELSE s

\* The kind of a client: the dependency client of a job, a real client (it
\* has a connection), or a seed client.
Kind(client) ==
    IF client.delayed # NULL THEN "dependency"
    ELSE IF client.fd >= 0 THEN "real"
    ELSE "seed"

\* completed: complete_request is called for client.
NoteCompleted(s, client, success) ==
    [s EXCEPT !.completed = @ \cup {<<Kind(client), success>>}]

\* complete_request on the i-th client of the list.
complete_request(s, i, success, nofork) ==
    complete_seed(complete_reply(NoteCompleted(s, s.clients[i], success),
                                 s.clients[i], success, nofork),
                  s.clients[i], success)

\* has_free_slots without waiting_jobs: a script that waits for the answer to
\* its request keeps its slot.
has_free_slots_running(s) ==
    IF max_active_jobs <= 0 THEN TRUE
    ELSE s.running_jobs < max_active_jobs

\* has_free_slots with the comparison off by one.
has_free_slots_inclusive(s) ==
    IF max_active_jobs <= 0 THEN TRUE
    ELSE s.running_jobs - s.waiting_jobs <= max_active_jobs

has_free_slots(s) ==
    IF max_active_jobs <= 0 THEN TRUE
    ELSE s.running_jobs - s.waiting_jobs < max_active_jobs

(***************************************************************************)
(* update_clients.  The iterator i is a position in the client list; as    *)
(* i_next always is the successor of i, the for loop goes on at i after an *)
(* erase and at i + 1 otherwise.  The function is run one step at a time:  *)
(* a step is the head of the for loop with the loop over the running       *)
(* targets of the client ("for"), or one turn of the while loop over its   *)
(* pending targets with, once they are exhausted, the completion of the    *)
(* client ("while").  A step gives the state and what to do next.          *)
(***************************************************************************)
\* The first loop of the body: the running targets ks of client c, in the
\* order of the set.  It ends with the client failed at the first Failed
\* target, and with an abort at a Todo one (assert(false)).
RECURSIVE harvest(_, _, _, _)
harvest(s, i, c, ks) ==
    IF ks = <<>> THEN [s |-> [s EXCEPT !.clients[i] = c], do |-> "while"]
    ELSE CASE s.status[Head(ks)].status \in {"Uptodate", "Remade"} ->
                harvest(s, i, [c EXCEPT !.running = @ \ {Head(ks)},
                                        !.seen = @ \cup {Head(ks)}], Tail(ks))
           [] s.status[Head(ks)].status = "Running" -> harvest(s, i, c, Tail(ks))
           [] s.status[Head(ks)].status = "Failed" ->
                [s |-> [s EXCEPT !.clients[i] = c], do |-> "failed"]
           [] OTHER -> [s |-> [s EXCEPT !.clients[i] = c], do |-> "abort"]

\* The head of the for loop, then the loop over the running targets.
update_for(s, i) ==
    IF i > Len(s.clients) \/ ~has_free_slots(s)
    THEN [s |-> s, do |-> "return"]
    ELSE harvest(s, i, s.clients[i], SetOrder(s.clients[i].running))

\* After start has returned r for the pending target of client i.
update_started(r, i, target) ==
    IF r.s.aborted THEN [s |-> r.s, do |-> "return"]
    ELSE IF ~r.ok THEN [s |-> r.s, do |-> "failed"]
    ELSE [s |-> [r.s EXCEPT !.clients[IF r.inserted THEN i + 1 ELSE i].running =
                               @ \cup {target}],
          do |-> IF ~has_free_slots(r.s) THEN "return" ELSE "while"]

\* update_target with the case Uptodate falling into the case Todo: a job is
\* started for a target that is up to date.
update_target_rebuild(s, i, target, nofork) ==
    CASE s.status[target].status = "Failed" -> [s |-> s, do |-> "failed"]
      [] s.status[target].status = "Running" ->
           [s |-> [s EXCEPT !.clients[i].running = @ \cup {target}], do |-> "while"]
      [] s.status[target].status = "Remade" ->
           [s |-> [s EXCEPT !.clients[i].seen = @ \cup {target}], do |-> "while"]
      [] OTHER -> update_started(start(s, target, i, nofork), i, target)

\* The switch on the status of the pending target, which get_status has
\* put in the status map of s.
update_target(s, i, target, nofork) ==
    CASE s.status[target].status = "Failed" -> [s |-> s, do |-> "failed"]
      [] s.status[target].status = "Running" ->
           [s |-> [s EXCEPT !.clients[i].running = @ \cup {target}], do |-> "while"]
      [] s.status[target].status \in {"Uptodate", "Remade"} ->
           [s |-> [s EXCEPT !.clients[i].seen = @ \cup {target}], do |-> "while"]
      [] OTHER -> update_started(start(s, target, i, nofork), i, target)

\* update_while without the test of i->running.empty(): the client is
\* completed as soon as nothing is pending.
update_while_eager(s, i, nofork) ==
    IF s.clients[i].pending = <<>>
    THEN [s |-> s, do |-> "finished"]
    ELSE update_target([s EXCEPT !.clients[i].pending = Tail(@),
                                 !.status = get_status(@, s.exists, s.deps,
                                                       Head(s.clients[i].pending))],
                       i, Head(s.clients[i].pending), nofork)

\* One turn of the while loop over the pending targets, or the test that
\* follows the loop.
update_while(s, i, nofork) ==
    IF s.clients[i].pending = <<>>
    THEN [s |-> s, do |-> IF s.clients[i].running = {} THEN "finished" ELSE "next"]
    ELSE update_target([s EXCEPT !.clients[i].pending = Tail(@),
                                 !.status = get_status(@, s.exists, s.deps,
                                                       Head(s.clients[i].pending))],
                       i, Head(s.clients[i].pending), nofork)

\* clients.erase(i) after complete_request, the process has not aborted.
update_erase(s, i) ==
    IF s.aborted THEN [s |-> s, i |-> i, at |-> "return"]
    ELSE [s |-> [s EXCEPT !.clients = Remove(@, i)], i |-> i, at |-> "for"]

\* What follows a step that gave d.
update_do(d, i, nofork) ==
    CASE d.do = "return" -> [s |-> d.s, i |-> i, at |-> "return"]
      [] d.do = "abort" ->
           [s |-> [d.s EXCEPT !.aborted = TRUE], i |-> i, at |-> "return"]
      [] d.do \in {"failed", "finished"} ->
           update_erase(complete_request(d.s, i, d.do = "finished", nofork), i)
      [] d.do = "next" -> [s |-> d.s, i |-> i + 1, at |-> "for"]
      [] OTHER -> [s |-> d.s, i |-> i, at |-> "while"]

\* One step of update_clients from the configuration cfg: the state, the
\* position in the list, and the place in the code.
update_step(cfg, nofork) ==
    update_do(IF cfg.at = "for" THEN update_for(cfg.s, cfg.i)
              ELSE update_while(cfg.s, cfg.i, nofork),
              cfg.i, nofork)

RECURSIVE update_run(_, _)
update_run(cfg, nofork) ==
    IF cfg.at = "return" THEN cfg.s
    ELSE update_run(update_step(cfg, nofork), nofork)

\* update_clients that begins with the second client of the list when there
\* is one.
update_clients_second(s, nofork) ==
    update_run([s |-> s, i |-> IF Len(s.clients) >= 2 THEN 2 ELSE 1,
                at |-> "for"], nofork)

update_clients(s, nofork) == update_run([s |-> s, i |-> 1, at |-> "for"], nofork)

(***************************************************************************)
(* accept_client, on the connection m at the head of the backlog: the job  *)
(* id it sent, the names it sent, and whether the message reached the      *)
(* empty name that ends it.                                                *)
(***************************************************************************)
\* accept_client with the new client put at the back of the queue.
accept_client_back(s, m) ==
    IF m.job_id \notin DOMAIN s.job_targets \/ ~m.terminated
    THEN [Answer(s, m.fd, -1) EXCEPT
            !.clients = Remove(<<[client_t EXCEPT !.job_id = m.job_id,
                                                  !.fd = m.fd]>> \o @, 1)]
    ELSE [s EXCEPT
            !.clients = @ \o <<[client_t EXCEPT !.job_id = m.job_id, !.fd = m.fd,
                                                !.pending = m.targets,
                                                !.asked = Range(m.targets)]>>,
            !.deps = [t \in Targets |->
                        IF t \in Range(s.job_targets[m.job_id])
                        THEN @[t] \cup Range(m.targets) ELSE @[t]],
            !.history[m.job_id + 1].requested = @ \cup Range(m.targets),
            !.waiting_jobs = @ + 1]

\* accept_client that parses the names it has received before it finds that
\* the message is not ended: they are recorded as dependencies of the job.
accept_client_parsed(s, m) ==
    IF m.job_id \notin DOMAIN s.job_targets
    THEN [Answer(s, m.fd, -1) EXCEPT
            !.clients = Remove(<<[client_t EXCEPT !.job_id = m.job_id,
                                                  !.fd = m.fd]>> \o @, 1)]
    ELSE IF ~m.terminated
    THEN [Answer(s, m.fd, -1) EXCEPT
            !.deps = [t \in Targets |->
                        IF t \in Range(s.job_targets[m.job_id])
                        THEN @[t] \cup Range(m.targets) ELSE @[t]]]
    ELSE [s EXCEPT
            !.clients = <<[client_t EXCEPT !.job_id = m.job_id, !.fd = m.fd,
                                           !.pending = m.targets,
                                           !.asked = Range(m.targets)]>> \o @,
            !.deps = [t \in Targets |->
                        IF t \in Range(s.job_targets[m.job_id])
                        THEN @[t] \cup Range(m.targets) ELSE @[t]],
            !.history[m.job_id + 1].requested = @ \cup Range(m.targets),
            !.waiting_jobs = @ + 1]

accept_client(s, m) ==
    IF m.job_id \notin DOMAIN s.job_targets \/ ~m.terminated
    THEN [Answer(s, m.fd, -1) EXCEPT
            !.clients = Remove(<<[client_t EXCEPT !.job_id = m.job_id,
                                                  !.fd = m.fd]>> \o @, 1)]
    ELSE [s EXCEPT
            !.clients = <<[client_t EXCEPT !.job_id = m.job_id, !.fd = m.fd,
                                           !.pending = m.targets,
                                           !.asked = Range(m.targets)]>> \o @,
            !.deps = [t \in Targets |->
                        IF t \in Range(s.job_targets[m.job_id])
                        THEN @[t] \cup Range(m.targets) ELSE @[t]],
            !.history[m.job_id + 1].requested = @ \cup Range(m.targets),
            !.waiting_jobs = @ + 1]

(***************************************************************************)
(* The inputs.                                                             *)
(***************************************************************************)
\* A rule as load_rules builds it: generic when a word holds a %.
Rule(targets, ds, script) ==
    [generic |-> \E w \in Range(targets) \cup Range(ds) : FindPercent(w, 1) # 0,
     targets |-> targets, deps |-> ds, script |-> script]

\* The rule files of the model.
Chain    == << Rule(<<A>>, <<B>>, "a"), Rule(<<B>>, <<>>, "b"),
               Rule(<<C>>, <<D>>, "c") >>
Shared   == << Rule(<<A, B>>, <<>>, "ab"), Rule(<<B, C>>, <<>>, "bc"),
               Rule(<<D>>, <<>>, "d") >>
Cyclic   == << Rule(<<A>>, <<A>>, "a"), Rule(<<B>>, <<C>>, "b"),
               Rule(<<C>>, <<B>>, "c") >>
Generic  == << Rule(<<<<"%", "o">>>>, <<<<"%", "c">>>>, "o"),
               Rule(<<AC>>, <<>>, "ac") >>
Rebuilt  == << Rule(<<Remakefile>>, <<D>>, "R"), Rule(<<A, B>>, <<C>>, "ab"),
               Rule(<<C>>, <<>>, "c") >>
\* The rules Remakefile may hold once its script has written it anew.
RuleFiles == {Shared, Cyclic, Generic, Rebuilt}

\* What .remake holds: a dependency map.
Database(pairs) == [t \in Targets |-> {p[2] : p \in {q \in pairs : q[1] = t}}]

\* The modification times: all files as old as each other but those of
\* younger, which are younger.
Times(younger) == [t \in Targets |-> IF t \in younger THEN MaxTime ELSE 1]

\* A run: what Remakefile and .remake hold, the files that exist with their
\* times, and the targets of the command line.
Run(rs, db, files, younger, args) ==
    [rules |-> rs, dotremake |-> Database(db), exists |-> files,
     mtime |-> Times(younger), argv |-> args]

Runs ==
    { \* nothing is built yet
      Run(Chain, {}, {Remakefile}, {}, <<A, C>>),
      Run(Shared, {}, {Remakefile}, {}, <<A, C>>),
      Run(Cyclic, {}, {Remakefile}, {}, <<A, B>>),
      Run(Generic, {}, {Remakefile}, {}, <<AO>>),
      \* every file exists; some are younger than others
      Run(Chain, {}, Targets, {}, <<A, C>>),
      Run(Chain, {}, Targets, {A}, <<A>>),
      Run(Chain, {}, Targets, {B, D}, <<A>>),
      Run(Rebuilt, {}, Targets, {D}, <<A>>),
      \* .remake records dependencies that no rule states
      Run(Chain, {<<A, C>>}, Targets \ {C, D}, {}, <<A>>),
      Run(Shared, {<<A, D>>}, Targets, {D}, <<A, D>>),
      Run(Shared, {<<A, B>>, <<B, A>>}, Targets, {A}, <<B, A>>),
      Run(Shared, {<<A, B>>, <<B, A>>}, Targets, {A}, <<A>>),
      \* a exists and b, which the same rule builds, does not
      Run(Shared, {}, Targets \ {B, D}, {}, <<A, D>>) }

\* The names a script may send in one request.
Requests == {<<B>>, <<C, A>>}

\* load_dependencies then load_rules: the rules add the dependencies of the
\* rules that are not generic to those of the file.
load_rules(d, rs) ==
    [t \in Targets |->
        d[t] \cup UNION {Range(rs[k].deps) :
                           k \in {x \in 1..Len(rs) :
                                    ~rs[x].generic /\ t \in Range(rs[x].targets)}}]

Init ==
    /\ \E run \in Runs :
         /\ rulefile = run.rules
         /\ dotremake = run.dotremake
         /\ exists = run.exists
         /\ mtime = run.mtime
         /\ argv = run.argv
    /\ max_active_jobs \in 0..MaxCap
    /\ rules = <<>>
    /\ deps = [t \in Targets |-> {}]
    /\ status = [t \in Targets |-> Absent]
    /\ job_targets = <<>>
    /\ job_pids = {}
    /\ clients = <<>>
    /\ running_jobs = 0
    /\ waiting_jobs = 0
    /\ job_counter = 0
    /\ build_failure = FALSE
    /\ pc = "server_mode"
    /\ seed = "none"
    /\ exit_code = -1
    /\ got_SIGCHLD = FALSE
    /\ sigpending = FALSE
    /\ backlog = <<>>
    /\ nconns = 0
    /\ child = <<>>
    /\ reply = <<>>
    /\ history = <<>>
    /\ completed = {}
    /\ wanted = <<>>
    /\ found = rule_t
    /\ text = <<>>
    /\ written = <<>>
    /\ word = <<>>

(***************************************************************************)
(* server_mode and server_loop.                                            *)
(***************************************************************************)
\* exit(1) in load_dependencies, load_rules or create_server.
StartupFails ==
    /\ pc = "server_mode"
    /\ pc' = "exit"
    /\ exit_code' = 1
    /\ UNCHANGED <<file_vars, srv_vars, rules, seed, got_SIGCHLD, sigpending,
                   backlog, nconns>>

\* Seed with one client for Remakefile and the targets of the command line
\* together when Remakefile is Todo.
Seed_together(S) ==
    /\ seed' = IF S[Remakefile].status = "Todo" THEN "Remakefile" ELSE "targets"
    /\ clients' = <<[client_t EXCEPT !.pending =
                       IF S[Remakefile].status = "Todo"
                       THEN <<Remakefile>> \o argv ELSE argv]>>
    /\ status' = S

\* The seed client for Remakefile when the status map S has it Todo, for
\* the targets of the command line otherwise.
Seed(S) ==
    /\ seed' = IF S[Remakefile].status = "Todo" THEN "Remakefile" ELSE "targets"
    /\ clients' = <<[client_t EXCEPT !.pending =
                       IF S[Remakefile].status = "Todo"
                       THEN <<Remakefile>> ELSE argv]>>
    /\ status' = S

\* server_mode up to its first call of server_loop.
Startup ==
    /\ pc = "server_mode"
    /\ rules' = rulefile
    /\ deps' = load_rules(dotremake, rulefile)
    /\ Seed(get_status(status, exists, load_rules(dotremake, rulefile), Remakefile))
    /\ pc' = "update_clients"
    /\ UNCHANGED <<file_vars, exists, job_targets, job_pids, running_jobs,
                   waiting_jobs, job_counter, build_failure, child, reply,
                   history, completed, exit_code, got_SIGCHLD, sigpending,
                   backlog, nconns>>

\* The test that follows update_clients in server_loop, in state s.
LoopTest(s) ==
    /\ Commit(s)
    /\ pc' = IF s.aborted THEN "aborted"
             ELSE IF s.running_jobs # 0 THEN "pselect"
             ELSE IF s.clients = <<>> THEN "returned"
             ELSE "aborted"

\* update_clients, then the test of running_jobs that ends server_loop.  At
\* most one fork fails in a pass: that of a job the pass would have forked.
UpdateClients ==
    /\ pc = "update_clients"
    /\ \E nofork \in {{}} \cup
                     {{j} : j \in update_clients(Server, {}).job_pids \ job_pids} :
         LoopTest(update_clients(Server, nofork))
    /\ UNCHANGED <<file_vars, rules, seed, exit_code, got_SIGCHLD, sigpending,
                   backlog, nconns>>

\* pselect returns because a connection waits (the server then accepts it),
\* because SIGCHLD was delivered, or both.
Pselect ==
    /\ pc = "pselect"
    /\ \E readable \in BOOLEAN, signal \in BOOLEAN :
         /\ readable \/ signal
         /\ readable => backlog # <<>>
         /\ signal => sigpending
         /\ got_SIGCHLD' = signal
         /\ sigpending' = (sigpending /\ ~signal)
         /\ pc' = IF readable THEN "accept_client" ELSE "waitpid"
    /\ UNCHANGED <<file_vars, srv_vars, rules, seed, exit_code, backlog, nconns>>

AcceptClient ==
    /\ pc = "accept_client"
    /\ Commit(accept_client(Server, Head(backlog)))
    /\ backlog' = Tail(backlog)
    /\ pc' = IF got_SIGCHLD THEN "waitpid" ELSE "update_clients"
    /\ UNCHANGED <<file_vars, rules, seed, exit_code, got_SIGCHLD, sigpending, nconns>>

\* The body of the waitpid loop has run, which gave state s.
Reaped(s) ==
    /\ Commit(s)
    /\ pc' = IF s.aborted THEN "aborted" ELSE "waitpid"

\* One turn of the waitpid loop: a script that has exited is reaped.
Reap ==
    /\ pc = "waitpid"
    /\ \E j \in DOMAIN child :
         /\ child[j].state \in {"exited 0", "exited 1"}
         /\ Reaped(complete_job([Server EXCEPT !.job_pids = @ \ {j},
                                               !.running_jobs = @ - 1,
                                               !.child = Erase(@, j)],
                                j, child[j].state = "exited 0"))
    /\ got_SIGCHLD' = FALSE
    /\ UNCHANGED <<file_vars, rules, seed, exit_code, sigpending, backlog, nconns>>

\* waitpid finds no script to reap: back to the head of the loop.
ReapEnd ==
    /\ pc = "waitpid"
    /\ \A j \in DOMAIN child : child[j].state \notin {"exited 0", "exited 1"}
    /\ got_SIGCHLD' = FALSE
    /\ pc' = "update_clients"
    /\ UNCHANGED <<file_vars, srv_vars, rules, seed, exit_code, sigpending,
                   backlog, nconns>>

\* After the loop for Remakefile, which its script has written anew: the
\* rules are loaded again, which may fail, and the targets of the command
\* line are seeded.
Reload ==
    /\ pc = "returned"
    /\ seed = "Remakefile"
    /\ ~build_failure
    /\ \E rs \in RuleFiles :
         /\ rulefile' = rs
         /\ \/ /\ pc' = "exit"
               /\ exit_code' = 1
               /\ UNCHANGED <<rules, deps, clients, seed>>
            \/ /\ rules' = rs
               /\ deps' = load_rules(deps, rs)
               /\ clients' = <<[client_t EXCEPT !.pending = argv]>>
               /\ seed' = "targets"
               /\ pc' = "update_clients"
               /\ UNCHANGED exit_code
    /\ UNCHANGED <<in_vars, rule_vars, word_vars, exists, status, job_targets,
                   job_pids, running_jobs, waiting_jobs, job_counter, build_failure, child, reply,
                   history, completed, got_SIGCHLD, sigpending, backlog, nconns>>

\* The end of server_mode: exit(build_failure ? 1 : 0).
Exit ==
    /\ pc = "returned"
    /\ seed = "targets" \/ build_failure
    /\ pc' = "exit"
    /\ exit_code' = IF build_failure THEN 1 ELSE 0
    /\ UNCHANGED <<file_vars, srv_vars, rules, seed, got_SIGCHLD, sigpending,
                   backlog, nconns>>

(***************************************************************************)
(* The scripts.                                                            *)
(***************************************************************************)
\* What the remake called by the script of job j may send: the id of the job
\* and some names; or a message that stops before the empty name that ends
\* it; or, when REMAKE_JOB_ID is not in its environment, the id -1.
Messages(j) ==
    {[job_id |-> j, targets |-> names, terminated |-> TRUE] : names \in Requests}
    \cup {[job_id |-> j, targets |-> <<B>>, terminated |-> FALSE],
          [job_id |-> -1, targets |-> <<B>>, terminated |-> TRUE]}

\* A running script calls remake, which connects to the server.  The script
\* waits for the answer, or goes on when it ran remake in the background
\* (the model has the background calls send whole messages only).
\* (The server sees what a script does only through pselect, accept and
\* waitpid: the scripts take their steps while it waits in pselect.)
Request ==
    /\ pc = "pselect"
    /\ nconns < MaxConns
    /\ \E j \in DOMAIN child : \E m \in Messages(j), waits \in BOOLEAN :
         /\ child[j] = Running(j)
         /\ waits \/ (m.job_id = j /\ m.terminated)
         /\ backlog' = Append(backlog, [fd |-> nconns, job_id |-> m.job_id,
                                        targets |-> m.targets,
                                        terminated |-> m.terminated])
         /\ child' = IF waits THEN Put(child, j, Blocked(j, nconns)) ELSE child
    /\ nconns' = nconns + 1
    /\ UNCHANGED <<file_vars, exists, deps, status, job_targets, job_pids, clients,
                   running_jobs, waiting_jobs, job_counter, build_failure,
                   reply, history, completed, rules, pc, seed, exit_code, got_SIGCHLD,
                   sigpending>>

\* A running script exits: SIGCHLD is raised.
ScriptExits ==
    /\ pc = "pselect"
    /\ \E j \in DOMAIN child, success \in BOOLEAN :
         /\ child[j] = Running(j)
         /\ child' = Put(child, j, Exited(j, success))
    /\ sigpending' = TRUE
    /\ UNCHANGED <<file_vars, exists, deps, status, job_targets, job_pids, clients,
                   running_jobs, waiting_jobs, job_counter, build_failure,
                   reply, history, completed, rules, pc, seed, exit_code, got_SIGCHLD,
                   backlog, nconns>>

Next ==
    \/ StartupFails
    \/ Startup
    \/ UpdateClients
    \/ Pselect
    \/ AcceptClient
    \/ Reap
    \/ ReapEnd
    \/ Reload
    \/ Exit
    \/ Request
    \/ ScriptExits

Spec == Init /\ [][Next]_vars

(***************************************************************************)
(* The status cache alone: get_status called on one target after another,  *)
(* from an empty status map, for the dependencies and the files below.     *)
(***************************************************************************)
\* The targets get_status is called for.
Inspected == {A, B, C}

\* The dependency maps: none, a chain, a fan, and two cycles.
Databases ==
    { Database({}), Database({<<A, B>>}), Database({<<A, B>>, <<B, C>>}),
      Database({<<A, B>>, <<A, C>>}), Database({<<A, B>>, <<B, A>>}),
      Database({<<A, B>>, <<B, C>>, <<C, A>>}) }

\* The modification times stat may give for the targets inspected.
AllTimes ==
    {[t \in Targets |-> IF t \in Inspected THEN f[t] ELSE 1] :
        f \in [Inspected -> 1..MaxTime]}

InitStatus ==
    /\ rulefile = <<>>
    /\ dotremake \in Databases
    /\ argv = <<>>
    /\ mtime \in AllTimes
    /\ exists \in SUBSET Inspected
    /\ max_active_jobs = 1
    /\ rules = <<>>
    /\ deps = dotremake
    /\ status = [t \in Targets |-> Absent]
    /\ job_targets = <<>>
    /\ job_pids = {}
    /\ clients = <<>>
    /\ running_jobs = 0
    /\ waiting_jobs = 0
    /\ job_counter = 0
    /\ build_failure = FALSE
    /\ pc = "get_status"
    /\ seed = "none"
    /\ exit_code = -1
    /\ got_SIGCHLD = FALSE
    /\ sigpending = FALSE
    /\ backlog = <<>>
    /\ nconns = 0
    /\ child = <<>>
    /\ reply = <<>>
    /\ history = <<>>
    /\ completed = {}
    /\ wanted = <<>>
    /\ found = rule_t
    /\ text = <<>>
    /\ written = <<>>
    /\ word = <<>>

\* get_status(target) for a target that is not yet in the status map.
Inspect ==
    /\ pc = "get_status"
    /\ \E target \in Inspected :
         /\ status[target] = Absent
         /\ status' = get_status(status, exists, deps, target)
    /\ UNCHANGED <<file_vars, exists, deps, job_targets, job_pids, clients,
                   running_jobs, waiting_jobs, job_counter, build_failure,
                   child, reply, history, completed, rules, pc, seed, exit_code,
                   got_SIGCHLD, sigpending, backlog, nconns>>

SpecStatus == InitStatus /\ [][Inspect]_vars

(***************************************************************************)
(* find_rule alone, over bounded rule lists.                               *)
(***************************************************************************)
\* The longest rule list find_rule is given.
MaxRules == 2

AOO == <<"a", "o", "o">>

\* The target lists of the rules: patterns with one %, alone or in pairs,
\* and lists without %.
Patterns == { <<"%">>, <<"%", "o">>, <<"a", "%">>, <<"a", "%", "o">> }
TargetLists ==
    {<<p>> : p \in Patterns}
        \cup {<<p, q>> : p, q \in Patterns}
        \cup {<<AO>>, <<A>>, <<A, AO>>}

\* The script of the rule at position k, which tells the rules of a list apart.
Label(k) == IF k = 1 THEN "1" ELSE IF k = 2 THEN "2" ELSE IF k = 3 THEN "3" ELSE "4"

\* The lists of n rules load_rules may build from them: a generic rule has the
\* static dep %c.
RuleLists(n) ==
    {[k \in 1..n |->
         Rule(f[k],
              IF FindPercent(f[k][1], 1) # 0 THEN << <<"%", "c">> >> ELSE <<>>,
              Label(k))] : f \in [1..n -> TargetLists]}

InitRule ==
    /\ rulefile = <<>>
    /\ dotremake = Database({})
    /\ argv = <<>>
    /\ mtime = [t \in Targets |-> 1]
    /\ exists = {}
    /\ max_active_jobs = 1
    /\ \E n \in 0..MaxRules : rules \in RuleLists(n)
    /\ deps = dotremake
    /\ status = [t \in Targets |-> Absent]
    /\ job_targets = <<>>
    /\ job_pids = {}
    /\ clients = <<>>
    /\ running_jobs = 0
    /\ waiting_jobs = 0
    /\ job_counter = 0
    /\ build_failure = FALSE
    /\ pc = "find_rule"
    /\ seed = "none"
    /\ exit_code = -1
    /\ got_SIGCHLD = FALSE
    /\ sigpending = FALSE
    /\ backlog = <<>>
    /\ nconns = 0
    /\ child = <<>>
    /\ reply = <<>>
    /\ history = <<>>
    /\ completed = {}
    /\ wanted \in {A, <<"o">>, AO, AOO}
    /\ found = rule_t
    /\ text = <<>>
    /\ written = <<>>
    /\ word = <<>>

\* find_rule(wanted) with the rule list rules.
FindRule ==
    /\ pc = "find_rule"
    /\ found' = find_rule(rules, wanted)
    /\ pc' = "found"
    /\ UNCHANGED <<rulefile, in_vars, wanted, word_vars, srv_vars, rules, seed,
                   exit_code, got_SIGCHLD, sigpending, backlog, nconns>>

SpecRule == InitRule /\ [][FindRule]_vars

(***************************************************************************)
(* escape_string and read_word alone: a string is saved the way            *)
(* save_dependencies writes a name, then read back the way                 *)
(* load_dependencies reads one.  A string is a sequence of characters and  *)
(* a stream is the sequence of the characters still to be read.            *)
(***************************************************************************)
\* The longest string given to escape_string.
MaxWord == 3

\* The characters of the strings: a letter, those escape_string escapes,
\* and a colon, a tab and a newline.
Alphabet == {"a", " ", "\"", "\\", "$", "!", ":", "\t", "\n"}

Strings == UNION {[1..n -> Alphabet] : n \in 0..MaxWord}

\* strchr("\" \\$!", c) in escape_string.
Escaped(c) == c \in {"\"", " ", "\\", "$", "!"}

\* strchr(" \t\r\n:", c) in read_word.
Delimiter(c) == c \in {" ", "\t", "\r", "\n", ":"}

\* The second loop of escape_string from position i: each character that is
\* escaped comes after a backslash.
RECURSIVE escape_from(_, _)
escape_from(s, i) ==
    IF i > Len(s) THEN <<>>
    ELSE (IF Escaped(s[i]) THEN <<"\\", s[i]>> ELSE <<s[i]>>) \o escape_from(s, i + 1)

escape_string(s) ==
    IF \A i \in DOMAIN s : ~Escaped(s[i]) THEN s
    ELSE <<"\"">> \o escape_from(s, 1) \o <<"\"">>

\* What get gives at the end of the stream, taken as a character.
EOF == "EOF"

\* The loop of read_word, with k the position of the next character of
\* stream in and res the word so far.  After an escape at the end of the
\* stream, the next get fails and the loop returns.
RECURSIVE read_loop(_, _, _, _)
read_loop(in, k, quoted, res) ==
    IF k > Len(in) THEN res
    ELSE IF quoted
    THEN IF in[k] = "\\"
         THEN read_loop(in, k + 2, quoted,
                        Append(res, IF k + 1 > Len(in) THEN EOF ELSE in[k + 1]))
         ELSE IF in[k] = "\"" THEN res
         ELSE read_loop(in, k + 1, quoted, Append(res, in[k]))
    ELSE IF Delimiter(in[k]) THEN res
    ELSE read_loop(in, k + 1, quoted, Append(res, in[k]))

\* The word read_word returns from stream in.
read_word(in) ==
    IF in = <<>> THEN <<>>
    ELSE IF Delimiter(in[1]) THEN <<>>
    ELSE read_loop(in, 2, in[1] = "\"", IF in[1] = "\"" THEN <<>> ELSE <<in[1]>>)

\* What save_dependencies writes after a name: ": " after a target, a space
\* after a dependency.
Followers == {<<":", " ">>, <<" ">>}

InitWord ==
    /\ rulefile = <<>>
    /\ dotremake = Database({})
    /\ argv = <<>>
    /\ mtime = [t \in Targets |-> 1]
    /\ exists = {}
    /\ max_active_jobs = 1
    /\ rules = <<>>
    /\ deps = dotremake
    /\ status = [t \in Targets |-> Absent]
    /\ job_targets = <<>>
    /\ job_pids = {}
    /\ clients = <<>>
    /\ running_jobs = 0
    /\ waiting_jobs = 0
    /\ job_counter = 0
    /\ build_failure = FALSE
    /\ pc = "escape_string"
    /\ seed = "none"
    /\ exit_code = -1
    /\ got_SIGCHLD = FALSE
    /\ sigpending = FALSE
    /\ backlog = <<>>
    /\ nconns = 0
    /\ child = <<>>
    /\ reply = <<>>
    /\ history = <<>>
    /\ completed = {}
    /\ wanted = <<>>
    /\ found = rule_t
    /\ text \in Strings
    /\ written = <<>>
    /\ word = <<>>

\* db << escape_string(text) << what follows the name.
Save ==
    /\ pc = "escape_string"
    /\ \E follow \in Followers : written' = escape_string(text) \o follow
    /\ pc' = "read_word"
    /\ UNCHANGED <<rulefile, in_vars, rule_vars, text, word, srv_vars, rules, seed,
                   exit_code, got_SIGCHLD, sigpending, backlog, nconns>>

\* read_word(in) on the stream that holds what was written.
Load ==
    /\ pc = "read_word"
    /\ word' = read_word(written)
    /\ pc' = "read"
    /\ UNCHANGED <<rulefile, in_vars, rule_vars, text, written, srv_vars, rules,
                   seed, exit_code, got_SIGCHLD, sigpending, backlog, nconns>>

SpecWord == InitWord /\ [][Save \/ Load]_vars

(***************************************************************************)
(* The properties.                                                         *)
(***************************************************************************)
\* The scripts that are alive and not waiting for the answer to a request.
Unblocked == {j \in DOMAIN child : child[j].state = "running"}

\* C1: with a positive cap N, at most N scripts are alive and not blocked
\* on the answer to a request of theirs, whatever the scripts do (several
\* requests at once, an exit while a request is still queued).
C1_UnblockedWithinCap ==
    max_active_jobs > 0 => Cardinality(Unblocked) <= max_active_jobs

\* C2: with a positive cap, running_jobs - waiting_jobs never exceeds
\* max_active_jobs in the server loop.
C2_ActiveWithinCap ==
    max_active_jobs > 0 => running_jobs - waiting_jobs <= max_active_jobs

\* C2, its case: the cap is reached while the server waits in pselect, with
\* a script that waits for the answer to its request.
C2_CapReached ==
    /\ pc = "pselect"
    /\ max_active_jobs > 0
    /\ waiting_jobs > 0
    /\ running_jobs - waiting_jobs = max_active_jobs

\* C3: the script of a job whose rule has static dependencies is started
\* only after the dependency client of the job has seen each of them
\* Uptodate or Remade; before that the job has no child process.
C3_ScriptAfterDeps ==
    \A k \in DOMAIN history :
        history[k].rule.deps # <<>> =>
            /\ history[k].script # "started" =>
                   k - 1 \notin DOMAIN child /\ k - 1 \notin job_pids
            /\ history[k].script = "started" =>
                   Range(history[k].rule.deps) \subseteq history[k].seen

\* C3, its case: a script runs whose rule has a static dependency that a job
\* built while the dependency client waited for it.
C3_StartedAfterDepBuilt ==
    \E k \in DOMAIN history :
        /\ history[k].rule.deps # <<>>
        /\ history[k].script = "started"
        /\ k - 1 \in DOMAIN child
        /\ \E d \in Range(history[k].rule.deps) : status[d].status = "Remade"

\* What C4 gives for a target whose file exists: obsolete when a recorded
\* dependency is not Uptodate or is younger than the target.
Obsolete(t) ==
    \E d \in deps[t] : status[d].status # "Uptodate" \/ mtime[d] > mtime[t]

\* C4: at its first inspection a target is Todo when its file does not
\* exist; else Todo when a recorded dependency is not Uptodate or has a
\* modification time greater than its own; else Uptodate with its own
\* modification time.
C4_FirstStatus ==
    \A t \in Targets :
        status[t] # Absent =>
            IF t \notin exists \/ Obsolete(t)
            THEN status[t].status = "Todo"
            ELSE status[t] = [status |-> "Uptodate", last |-> mtime[t]]

\* server_mode was left through an exit(1) of load_dependencies, load_rules
\* or create_server: before the first seed client, or when the rules are
\* loaded again after Remakefile was rebuilt with success.
StartupError == seed = "none" \/ (seed = "Remakefile" /\ ~build_failure)

\* C5 as stated: the exit status is 1 if and only if a seed client was
\* completed with failure.
C5_ExitOneIffSeedFailed ==
    pc = "exit" => (exit_code = 1 <=> <<"seed", FALSE>> \in completed)

\* C5, amended: the exit status is 1 if and only if a seed client was
\* completed with failure or the server stopped on a startup error; and
\* build_failure is set by the failure of a seed client only, never by that
\* of a real client or of a dependency client.
C5_ExitStatus ==
    /\ build_failure <=> <<"seed", FALSE>> \in completed
    /\ pc = "exit" =>
          (exit_code = 1 <=> (<<"seed", FALSE>> \in completed \/ StartupError))

\* C5, its case: the server exits with status 0 although a real client and
\* a dependency client failed.
C5_OtherClientsFailed ==
    /\ pc = "exit"
    /\ exit_code = 0
    /\ <<"real", FALSE>> \in completed
    /\ <<"dependency", FALSE>> \in completed

\* C6: when the dependency client of a job fails (a static dependency is
\* Failed, or no rule builds it), the script of the job is never started,
\* every target of the rule is Failed and the job has left job_targets.
C6_FailedDepsFailJob ==
    \A k \in DOMAIN history :
        history[k].depsfailed =>
            /\ history[k].script = "not started"
            /\ history[k].allfailed
            /\ k - 1 \notin DOMAIN job_targets
            /\ k - 1 \notin DOMAIN child

\* C6, its case: the dependency client of a job has failed because no rule
\* builds a static dependency, and that of another because the script of a
\* static dependency failed.
C6_DepsFailed ==
    \E k1, k2 \in DOMAIN history :
        /\ history[k1].depsfailed
        /\ history[k2].depsfailed
        /\ \E d \in Range(history[k1].rule.deps) : find_rule(rules, d) = rule_t
        /\ \E k \in DOMAIN history :
              /\ history[k].script = "started"
              /\ history[k].target \in Range(history[k2].rule.deps)

\* C7: when the script of a job is reaped, the dependencies of each target
\* of the job are the static dependencies of its rule and the names of the
\* requests accepted from the job, nothing else.
C7_DepsAtReap ==
    [][\A j \in DOMAIN child :
          (pc = "waitpid" /\ j \notin DOMAIN child') =>
              \A t \in Range(history[j + 1].rule.targets) :
                  deps[t] = Range(history[j + 1].rule.deps)
                                \cup history[j + 1].requested]_vars

\* C8: a job is started for a target only when a seed client has it (it is
\* a target of the command line, or Remakefile), when the dependency client
\* of a job has it (it is a static dependency of the rule of that job), or
\* when a real client has it (the script of a job has requested it); never
\* because the dependency map records it.
C8_OnlyStaticDepsScheduled ==
    \A k \in DOMAIN history :
        IF history[k].delayed
        THEN history[k].target \in Range(history[history[k].parent + 1].rule.deps)
        ELSE IF history[k].fd >= 0
        THEN history[k].target \in history[history[k].parent + 1].requested
        ELSE history[k].target \in Range(argv) \cup {Remakefile}

\* C8, its case: a was rebuilt because .remake records its dependency c,
\* which does not exist; c was found Todo and no job was started for it.
C8_MissingDepNotRebuilt ==
    /\ pc = "exit"
    /\ C \in dotremake[A]
    /\ C \notin Range(find_rule(rules, A).deps)
    /\ status[A].status = "Remade"
    /\ status[C].status = "Todo"
    /\ \A k \in DOMAIN history : C \notin Range(history[k].rule.targets)

\* C9: no rule is started twice in a run: two jobs never have the same
\* targets.
C9_RuleStartedOnce ==
    \A k1, k2 \in DOMAIN history :
        history[k1].rule.targets = history[k2].rule.targets => k1 = k2

\* C9, its case: the script of a rule with several targets runs, and a
\* client other than the one the job was started for waits for a target of
\* the rule other than the one the job was started for.
C9_CoTargetWaits ==
    \E k \in DOMAIN history, i \in DOMAIN clients :
        /\ Len(history[k].rule.targets) > 1
        /\ k - 1 \in DOMAIN child
        /\ clients[i].fd # history[k].fd
        /\ \E t \in clients[i].running :
              t \in Range(history[k].rule.targets) /\ t # history[k].target

\* The status map after get_status has been called for the targets ks in
\* turn, as server_mode and then update_clients do for a seed client.
RECURSIVE inspect_all(_, _)
inspect_all(S, ks) ==
    IF ks = <<>> THEN S
    ELSE inspect_all(get_status(S, exists, load_rules(dotremake, rulefile),
                                Head(ks)),
                     Tail(ks))

\* Remakefile is up to date, and so is each target of the command line when
\* it is inspected first.
AllUptodate ==
    /\ status[Remakefile].status = "Uptodate"
    /\ \A t \in Range(argv) :
          inspect_all([x \in Targets |-> Absent],
                      <<Remakefile>> \o argv)[t].status = "Uptodate"

RealClients == {i \in DOMAIN clients : clients[i].fd >= 0}

\* The connections that wait in the listening socket.
Queued == {backlog[i].fd : i \in DOMAIN backlog}

\* C11: a request that was accepted is answered once, when its client leaves
\* the queue, with 1 if and only if the client saw every name it asked for
\* Uptodate or Remade, and with 0 only when one of them is Failed; and
\* waiting_jobs counts the requests accepted and not yet answered.
C11_OneReply ==
    /\ waiting_jobs = Cardinality(RealClients)
    /\ \A i, j \in RealClients : clients[i].fd = clients[j].fd => i = j
    /\ \A fd \in 0..(nconns - 1) :
          \/ fd \in Queued /\ fd \notin DOMAIN reply
                /\ \A i \in RealClients : clients[i].fd # fd
          \/ fd \notin Queued /\ fd \notin DOMAIN reply
                /\ \E i \in RealClients : clients[i].fd = fd
          \/ fd \notin Queued /\ fd \in DOMAIN reply
                /\ \A i \in RealClients : clients[i].fd # fd
    /\ \A fd \in DOMAIN reply :
          /\ reply[fd].count = 1
          /\ reply[fd].byte \in {-1, 0, 1}
          /\ reply[fd].byte = 1 =>
                reply[fd].asked # {} /\ reply[fd].asked \subseteq reply[fd].seen
          /\ reply[fd].byte = 0 =>
                /\ reply[fd].failed # {}
                /\ ~(reply[fd].asked \subseteq reply[fd].seen)

\* C11, its case: a request was answered 1 and another 0, and no request is
\* left in the queue.
C11_BothReplies ==
    /\ waiting_jobs = 0
    /\ \E fd1, fd2 \in DOMAIN reply : reply[fd1].byte = 1 /\ reply[fd2].byte = 0


\* Whether pattern p (prefix % suffix) matches target t with a stem of one
\* character or more, and the length of that stem.
StemLen(p, t) == Len(t) - (Len(p) - 1)
Matches(p, t) ==
    /\ FindPercent(p, 1) # 0
    /\ StemLen(p, t) >= 1
    /\ \A k \in 1..(FindPercent(p, 1) - 1) : p[k] = t[k]
    /\ \A k \in (FindPercent(p, 1) + 1)..Len(p) : p[k] = t[k + StemLen(p, t) - 1]

\* The rules of the list that list t verbatim, and the patterns of its
\* generic rules that match t.
Verbatim(rs, t) == {i \in DOMAIN rs : ~rs[i].generic /\ t \in Range(rs[i].targets)}
MatchingPatterns(rs, t) ==
    {m \in (DOMAIN rs) \X Patterns :
        /\ rs[m[1]].generic
        /\ m[2] \in Range(rs[m[1]].targets)
        /\ Matches(m[2], t)}
\* Those with the shortest stem, in the earliest rule that has one.
ShortestStem(rs, t) ==
    {m \in MatchingPatterns(rs, t) :
        \A n \in MatchingPatterns(rs, t) :
            \/ StemLen(m[2], t) < StemLen(n[2], t)
            \/ StemLen(m[2], t) = StemLen(n[2], t) /\ m[1] <= n[1]}

\* C12: find_rule returns a non-generic rule that lists the target verbatim
\* whenever there is one; otherwise the instantiation of the matching
\* generic rule with the shortest stem, the earliest one in the list when
\* several have it (with any of its patterns of that stem); and a rule
\* without targets when no rule matches.
C12_FindRule ==
    pc = "found" =>
        IF Verbatim(rules, wanted) # {}
        THEN \E i \in Verbatim(rules, wanted) : found = rules[i]
        ELSE IF MatchingPatterns(rules, wanted) # {}
        THEN \E m \in ShortestStem(rules, wanted) :
                 found = instantiate(rules[m[1]], m[2], wanted)
        ELSE found.targets = <<>>

\* The jobs whose fork failed, and the jobs that list one of the targets of
\* job j and were started after it.
ForkFailed == {j \in 0..(Len(history) - 1) : history[j + 1].script = "fork failed"}
StartedAfter(j, t) ==
    \E k \in (j + 1)..(Len(history) - 1) : t \in Range(history[k + 1].rule.targets)

\* C13: a fork failure is handled like a script failure, from start as well
\* as from a completing dependency client: the targets of the job are Failed
\* (until a later job takes one of them), the job is neither in the job
\* table nor among the running ones, and the server has not aborted on the
\* assertion of complete_job (it aborts there before start has counted the
\* job).
C13_ForkFailureHandled ==
    \A j \in ForkFailed :
        /\ \A t \in Range(history[j + 1].rule.targets) :
               status[t].status = "Failed" \/ StartedAfter(j, t)
        /\ j \notin DOMAIN job_targets
        /\ j \notin job_pids
        /\ running_jobs = Cardinality(job_pids)
        /\ ~(pc = "aborted" /\ job_counter = j)

\* The connection accept_client is about to take is one it rejects: its job
\* id is not in the job table, or its message is not ended.
IllFormed(m) == m.job_id \notin DOMAIN job_targets \/ ~m.terminated

\* C14: accept_client on such a connection leaves the client queue,
\* waiting_jobs, deps, status and the job table as they were, no client of
\* the queue has the connection, which is closed without a reply, and the
\* server goes on with its loop.
C14_RejectedUnchanged ==
    [][(pc = "accept_client" /\ IllFormed(Head(backlog))) =>
          /\ clients' = clients
          /\ \A i \in DOMAIN clients' : clients'[i].fd # Head(backlog).fd
          /\ waiting_jobs' = waiting_jobs
          /\ deps' = deps
          /\ status' = status
          /\ job_targets' = job_targets
          /\ reply'[Head(backlog).fd].byte = -1
          /\ pc' \in {"waitpid", "update_clients"}]_vars

\* C14, its case: a connection was rejected with a job still in the job
\* table, and a connection made after it is a client of the queue.
C14_RejectedThenAccepted ==
    \E fd \in DOMAIN reply :
        /\ reply[fd].byte = -1
        /\ job_targets # <<>>
        /\ \E i \in DOMAIN clients : clients[i].fd > fd

\* The job a seed client started from which job k (an index of history)
\* comes, through dependency clients and recursive requests.
RECURSIVE Root(_)
Root(k) == IF history[k].parent = -1 THEN k ELSE Root(history[k].parent + 1)

\* The seed clients of the queue.
SeedClients == {i \in DOMAIN clients : Kind(clients[i]) = "seed"}

\* C15, as stated: as long as the seed client of the command line has not
\* been made, no target of the command line has been inspected or started.
C15_TargetsUntouched ==
    seed = "Remakefile" => \A t \in Range(argv) : status[t] = Absent

\* C15: when Remakefile is Todo at startup, the first seed client has
\* Remakefile alone, and every job started before the seed client of the
\* command line is made comes from it; that second seed client is made only
\* once server_loop has returned (no client, no running job) without
\* build_failure and with Remakefile Remade; after a failed rebuild it is
\* never made and the exit status is 1.
C15_RemakefileFirst ==
    /\ [](seed = "Remakefile" =>
            /\ \A i \in SeedClients :
                   Range(clients[i].pending) \cup clients[i].running
                       \subseteq {Remakefile}
            /\ \A k \in DOMAIN history : history[Root(k)].target = Remakefile
            /\ (pc = "exit" /\ build_failure) => exit_code = 1)
    /\ [][(seed = "Remakefile" /\ seed' # seed) =>
             /\ seed' = "targets"
             /\ pc = "returned" /\ clients = <<>> /\ running_jobs = 0
             /\ ~build_failure
             /\ status[Remakefile].status = "Remade"]_vars
    /\ [][(seed = "Remakefile" /\ build_failure) =>
             /\ seed' = seed
             /\ build_failure'
             /\ pc' \in {pc, "returned", "exit", "pselect", "waitpid",
                         "accept_client", "update_clients"}]_vars

\* C15, its case: the rebuild of Remakefile has failed and the server has
\* exited with status 1; a, the target of the command line, was inspected
\* all the same, for a request of the script of Remakefile.
C15_RebuildFailed ==
    /\ pc = "exit" /\ seed = "Remakefile" /\ build_failure /\ exit_code = 1
    /\ A \in Range(argv) /\ status[A] # Absent

\* C16: when update_clients has returned with running_jobs = 0 (server_loop
\* is at its assertion, or past it), the client queue is empty.  (A pass cut
\* short in start by the assertion of complete_job has not returned: the
\* job it was starting is not counted yet.)
C16_QueueEmptyAtQuiescence ==
    (pc \in {"returned", "aborted"} /\ running_jobs = 0
        /\ Len(history) = job_counter)
    => clients = <<>>

\* The server waits in pselect with no connection to accept and no signal to
\* come: every script left is blocked on a recursive request.
Stuck ==
    /\ pc = "pselect" /\ backlog = <<>> /\ ~sigpending
    /\ \A j \in DOMAIN child : child[j].state = "blocked"

\* C17: every accepted recursive request gets its reply in the end, if the
\* scripts that are not blocked on a request exit.  Hence the server is
\* never stuck with a real client in the queue: from there on no script can
\* exit and no client is ever completed.
C17_RequestNotStuck == ~(Stuck /\ RealClients # {})

\* The jobs of history h that list target t, and the jobs started, and
\* completed, by the step.
Jobs(h, t) == {k \in DOMAIN h : t \in Range(h[k].rule.targets)}
StartedNow(t) == Jobs(history', t) \ DOMAIN history # {}
CompletedNow(t) ==
    \E j \in DOMAIN job_targets \ DOMAIN job_targets' : t \in Range(job_targets[j])

\* C18, as stated: a status changes only along Todo or Uptodate to Running
\* to Remade or Failed (after the first inspection, which gives Todo or
\* Uptodate): a target that is Remade or Failed keeps its status, and a
\* target that becomes Remade or Failed has been Running, so some job lists
\* it.
C18_StatusLifecycle ==
    [][\A t \in Targets :
          status'[t].status # status[t].status =>
              /\ status[t].status \notin {"Remade", "Failed"}
              /\ status'[t].status \in {"Remade", "Failed"} =>
                     Jobs(history', t) # {}]_vars

\* C18: a status changes at the first inspection (to Todo or Uptodate), in
\* start when no rule builds the target (from Todo to Failed, without
\* Running), in start for each target of the rule started (to Running,
\* whatever the status was; to Failed when the job is completed in the same
\* pass), and in complete_job for each target of the job (to Remade or
\* Failed).  A target that is Remade or Failed changes again only in the
\* last two ways.
C18_StatusChanges ==
    [][\A t \in Targets :
          status'[t].status # status[t].status =>
              \/ /\ status[t].status = "Absent"
                 /\ status'[t].status \in {"Todo", "Uptodate"}
              \/ /\ status[t].status \in {"Absent", "Todo"}
                 /\ status'[t].status = "Failed"
                 /\ Jobs(history', t) = {}
                 /\ find_rule(rules, t).targets = <<>>
              \/ /\ StartedNow(t)
                 /\ status'[t].status \in {"Running", "Failed"}
              \/ /\ CompletedNow(t)
                 /\ status'[t].status \in {"Remade", "Failed"}]_vars

\* C18, its case: d is Failed and no job ever listed it (it was Todo and has
\* no rule), and a job has made b Remade.
C18_FailedWithoutRunning ==
    /\ status[D].status = "Failed" /\ Jobs(history, D) = {}
    /\ status[B].status = "Remade"

\* accept_client has put the client of the connection it accepted at the
\* front of the queue, before the clients that were there.
AcceptedAtFront ==
    (pc = "accept_client" /\ ~IllFormed(Head(backlog))) =>
        /\ clients' # <<>>
        /\ clients'[1].fd = Head(backlog).fd
        /\ Tail(clients') = clients

Fresh(c) ==
    /\ c.fd >= 0 /\ c.running = {} /\ c.seen = {}
    /\ Len(c.pending) = Cardinality(c.asked)

\* Where the client of connection fd stands in queue q (0: it is not there).
Place(q, fd) ==
    IF \E p \in DOMAIN q : q[p].fd = fd
    THEN CHOOSE p \in DOMAIN q : q[p].fd = fd
    ELSE 0

\* The connection accepted last among those of the real clients of the queue.
Newest == CHOOSE fd \in {clients[p].fd : p \in RealClients} :
              \A p \in RealClients : clients[p].fd <= fd

\* The clients of queue q but that of connection fd and the dependency
\* clients of the jobs from job on.
Others(q, fd, job) ==
    LET Old(c) == c.fd # fd /\ ~(c.delayed # NULL /\ c.job_id >= job)
    IN  SelectSeq(q, Old)

\* C20: a scheduling pass that begins with the real client accepted last
\* still fresh advances it (it has gone, or it is no longer fresh), and the
\* clients that were already in the queue advance only after it: either
\* they are all in the queue after the pass, in the same order and
\* unchanged, or the fresh client has gone or has no pending name left.
C20_RequestAdvancedFirst ==
    [][(pc = "update_clients" /\ RealClients # {}
           /\ Fresh(clients[Place(clients, Newest)])) =>
          \/ Place(clients', Newest) = 0
          \/ /\ ~Fresh(clients'[Place(clients', Newest)])
             /\ \/ clients'[Place(clients', Newest)].pending = <<>>
                \/ Others(clients', Newest, job_counter)
                       = Others(clients, Newest, job_counter)]_vars

\* C20, its case: a request was accepted while the seed client still had a
\* pending target; the pass that followed has advanced the request (b was
\* asked for, and a job was started for it) and the seed client is as it was.
C20_RequestBeforeSeed ==
    \E p \in RealClients :
        /\ clients[p].running # {}
        /\ \E k \in DOMAIN history : history[k].fd = clients[p].fd
        /\ \E q \in SeedClients : q > p /\ clients[q].pending # <<>>

\* The real client accepted last, and the name at the head of its request.
NewestClient == clients[Place(clients, Newest)]
FirstAsked == Head(NewestClient.pending)

\* Target t is found Todo when get_status inspects it now, and a rule builds it.
TodoWithRule(t) ==
    /\ get_status(status, exists, deps, t)[t].status = "Todo"
    /\ find_rule(rules, t).targets # <<>>

\* The jobs the step starts for target t on behalf of connection fd.
StartedFor(t, fd) ==
    {k \in DOMAIN history' \ DOMAIN history :
        history'[k].target = t /\ history'[k].fd = fd}

\* C21: with a cap of one or more, however many slots are taken (all of them
\* included), the pass that follows the acceptance of a request whose first
\* name is Todo and has a rule starts a job for that name: its targets are
\* Running, or already Failed when the fork failed or a static dependency
\* cannot be built; no script had to exit for that.
C21_RequestStarted ==
    [][(pc = "update_clients" /\ max_active_jobs >= 1 /\ RealClients # {}
           /\ Fresh(NewestClient) /\ TodoWithRule(FirstAsked)) =>
          /\ StartedFor(FirstAsked, Newest) # {}
          /\ status'[FirstAsked].status \in {"Running", "Failed"}
          /\ DOMAIN child \subseteq DOMAIN child']_vars

\* C21, its case: with cap N, N scripts were alive when one of them asked for
\* a target; the script of the job started for the request runs beside
\* them, while the one that asked waits for the answer.
C21_StartedBeyondCap ==
    /\ pc = "pselect" /\ max_active_jobs >= 1
    /\ Cardinality(DOMAIN child) = max_active_jobs + 1
    /\ running_jobs - waiting_jobs = max_active_jobs
    /\ \E k \in DOMAIN history :
          /\ history[k].fd >= 0
          /\ child[history[k].parent] = Blocked(history[k].parent, history[k].fd)
          /\ k - 1 \in DOMAIN child /\ child[k - 1] = Running(k - 1)

\* C22: no target is in the target lists of two jobs of the job table at
\* once, whatever the rules, those that share a target included.
C22_OneJobPerTarget ==
    \A j1, j2 \in DOMAIN job_targets :
        j1 # j2 => Range(job_targets[j1]) \cap Range(job_targets[j2]) = {}

\* C23: when the server exits with status 0, every target of the command
\* line is Uptodate or Remade.
C23_ExitZeroAllBuilt ==
    (pc = "exit" /\ exit_code = 0) =>
        \A t \in Range(argv) : status[t].status \in {"Uptodate", "Remade"}

\* The targets reached from those of T through the static dependencies of
\* the rules rs, in n steps at most.
StaticDeps(rs, T) == UNION {Range(find_rule(rs, t).deps) : t \in T}
RECURSIVE Reached(_, _, _)
Reached(rs, T, n) ==
    IF n = 0 THEN T ELSE T \cup Reached(rs, StaticDeps(rs, T), n - 1)

\* No target depends on itself through the static dependencies of rs.
Acyclic(rs) ==
    \A t \in Targets :
        t \notin Reached(rs, StaticDeps(rs, {t}), Cardinality(Targets))

\* C24: with rules whose static dependencies are acyclic and scripts that
\* make no request, server_loop returns once the scripts have exited, with
\* an empty client queue, running_jobs at 0 and no target Running.  Hence,
\* as long as no script has connected, the server has not aborted in
\* server_loop (it would never return), and when server_loop has returned
\* the queue is empty, no job runs and no target is Running.
C24_LoopReturns ==
    (Acyclic(rules) /\ nconns = 0) =>
        /\ pc # "aborted"
        /\ pc = "returned" =>
              /\ clients = <<>>
              /\ running_jobs = 0
              /\ \A t \in Targets : status[t].status # "Running"

\* Whether pattern p matches target t when the stem may be empty.
MatchesOrEmpty(p, t) ==
    /\ FindPercent(p, 1) # 0
    /\ StemLen(p, t) >= 0
    /\ \A k \in 1..(FindPercent(p, 1) - 1) : p[k] = t[k]
    /\ \A k \in (FindPercent(p, 1) + 1)..Len(p) : p[k] = t[k + StemLen(p, t) - 1]

\* The patterns of the generic rules of rs that match t in that sense.
MatchingOrEmpty(rs, t) ==
    {m \in (DOMAIN rs) \X Patterns :
        /\ rs[m[1]].generic
        /\ m[2] \in Range(rs[m[1]].targets)
        /\ MatchesOrEmpty(m[2], t)}

\* What the % of pattern p stands for in target t, and word w with its %
\* replaced by that stem.
Stem(p, t) == [k \in 1..StemLen(p, t) |-> t[FindPercent(p, 1) + k - 1]]
Fill(w, stem) ==
    IF FindPercent(w, 1) = 0 THEN w
    ELSE [k \in 1..(Len(w) - 1 + Len(stem)) |->
            IF k < FindPercent(w, 1) THEN w[k]
            ELSE IF k < FindPercent(w, 1) + Len(stem)
            THEN stem[k - FindPercent(w, 1) + 1]
            ELSE w[k - Len(stem) + 1]]

\* Rule r with the stem of pattern p in target t put for the % of each of
\* its targets and static dependencies.
Instance(r, p, t) ==
    [generic |-> FALSE,
     targets |-> [k \in DOMAIN r.targets |-> Fill(r.targets[k], Stem(p, t))],
     deps    |-> [k \in DOMAIN r.deps |-> Fill(r.deps[k], Stem(p, t))],
     script  |-> r.script]

\* C25, as stated: when no rule lists the target verbatim, find_rule gives a
\* rule if and only if some pattern prefix%suffix of a generic rule has
\* len(target) >= len(prefix) + len(suffix) with the target beginning with
\* prefix and ending with suffix, the empty stem included; the rule is the
\* source rule with the stem put for % in every target and static dep.
C25_EmptyStemMatches ==
    (pc = "found" /\ Verbatim(rules, wanted) = {}) =>
        /\ found.targets # <<>> <=> MatchingOrEmpty(rules, wanted) # {}
        /\ found.targets # <<>> =>
              \E m \in MatchingOrEmpty(rules, wanted) :
                  found = Instance(rules[m[1]], m[2], wanted)

\* C25: the same with len(target) > len(prefix) + len(suffix): a pattern
\* matches only with a stem of one character or more.
C25_PatternMatch ==
    (pc = "found" /\ Verbatim(rules, wanted) = {}) =>
        /\ found.targets # <<>> <=> MatchingPatterns(rules, wanted) # {}
        /\ found.targets # <<>> =>
              \E m \in MatchingPatterns(rules, wanted) :
                  found = Instance(rules[m[1]], m[2], wanted)

\* C25, its case: the target o is asked with the rule %o: %c alone, whose
\* pattern would match it with an empty stem; find_rule gives no rule.
C25_EmptyStemRejected ==
    /\ pc = "found" /\ wanted = <<"o">>
    /\ Len(rules) = 1 /\ rules[1].targets = << <<"%", "o">> >>
    /\ found = rule_t

\* The targets reached from those of T through the recorded dependencies, in
\* n steps at most.
RecordedDeps(T) == UNION {deps[t] : t \in T}
RECURSIVE Recorded(_, _)
Recorded(T, n) == IF n = 0 THEN T ELSE T \cup Recorded(RecordedDeps(T), n - 1)

\* The targets that are with t on a cycle of the recorded dependencies.
CycleOf(t) ==
    {u \in Recorded(RecordedDeps({t}), Cardinality(Targets)) :
        t \in Recorded(RecordedDeps({u}), Cardinality(Targets))}

\* Target t is not in the status map and is on a cycle of the recorded
\* dependencies, all of whose files exist.
OnCycle(t) ==
    status[t] = Absent /\ t \in CycleOf(t) /\ CycleOf(t) \subseteq exists

\* get_status(t) from the state at hand, with its depth.
StatusAt(t) == get_status_at([S |-> status, depth |-> 0], exists, deps, t, 1)

\* C26, as stated: for a target on a cycle of the recorded dependencies of
\* existing files, get_status recurses without end: its recursion goes
\* beyond every depth, so it reaches the level where the evaluation is cut.
C26_RecursesForever ==
    \A t \in Inspected : OnCycle(t) => StatusAt(t).depth >= MaxDepth

\* C26: get_status returns for every target, on a cycle or not: a nested
\* call for a target that is in the status map returns the entry at once,
\* so at most one call more is active than there are targets out of the
\* map; the target gets the status Todo or Uptodate.
C26_RecursionBounded ==
    \A t \in Inspected :
        status[t] = Absent =>
            /\ StatusAt(t).depth <=
                   Cardinality({u \in Targets : status[u] = Absent}) + 1
            /\ StatusAt(t).S = get_status(status, exists, deps, t)
            /\ StatusAt(t).S[t].status \in {"Todo", "Uptodate"}

\* C26, its case: a and b exist and each is recorded as a dependency of the
\* other; get_status has returned for both.
C26_CycleInspected ==
    /\ A \in deps[B] /\ B \in deps[A] /\ {A, B} \subseteq exists
    /\ status[A] # Absent /\ status[B] # Absent

\* C27: for every string s, read_word gives s back from what escape_string
\* has written for s, whatever the characters of s: space, double quote,
\* backslash, $, !, colon, tab and newline included.
C27_RoundTrip == pc = "read" => word = text

=============================================================================
